---- MODULE Spec2Model ----
(***************************************************************************)
(* Tax-loss-harvesting wash-sale navigator: ReplacementPolicy (models.py)  *)
(* and WashSaleNavigator.build_plan (logic.py).                            *)
(*                                                                         *)
(* Numbers.  The program computes on Python floats.  Here every float is   *)
(* an exact rational [n |-> numerator, d |-> denominator] in lowest terms  *)
(* with d > 0, in the program's own units (dollars, shares, fractions).    *)
(* round(x, k) is modelled by what it does to the value: the nearest       *)
(* multiple of 10^-k, a tie going to the even one.  Binary representation  *)
(* error of a float (of the order of 1e-16 relative) is not modelled.      *)
(* An Optional[T] is a sequence of length at most one: <<>> is None.       *)
(* A date is its day number; a timedelta is a number of days.              *)
(***************************************************************************)
EXTENDS Integers, Sequences, FiniteSets, TLC

VARIABLES policy, min_loss_dollars, min_loss_pct, lots, market, buys,
          pc, idx, items, total_loss, cash_delta, plan, error,
          text, calls, db, clock, resp, built, building

vars == <<policy, min_loss_dollars, min_loss_pct, lots, market, buys,
          pc, idx, items, total_loss, cash_delta, plan, error,
          text, calls, db, clock, resp, built, building>>

inputs == <<policy, min_loss_dollars, min_loss_pct, lots, market, buys>>

\* what a step of build_plan does not touch
outside == <<text, calls, db, clock, resp, built, building>>

(***************************************************************************)
(* Rational arithmetic standing for float arithmetic.                      *)
(***************************************************************************)
Abs(i) == IF i < 0 THEN -i ELSE i

RECURSIVE GCD(_, _)
GCD(a, b) == IF b = 0 THEN a ELSE GCD(b, a % b)

Rat(num, den) ==
    LET g == GCD(Abs(num), den)
    IN  [n |-> num \div g, d |-> den \div g]

Whole(i) == [n |-> i, d |-> 1]

Zero == Whole(0)

RatNeg(a) == [n |-> -a.n, d |-> a.d]

RatAdd(a, b) ==
    LET g == GCD(a.d, b.d)
    IN  Rat(a.n * (b.d \div g) + b.n * (a.d \div g), (a.d \div g) * b.d)

RatSub(a, b) == RatAdd(a, RatNeg(b))

RatMul(a, b) ==
    LET g1 == GCD(Abs(a.n), b.d)
        g2 == GCD(Abs(b.n), a.d)
    IN  IF a.n = 0 \/ b.n = 0 THEN Zero
        ELSE [n |-> (a.n \div g1) * (b.n \div g2),
              d |-> (a.d \div g2) * (b.d \div g1)]

\* a / b for b # 0
RatDiv(a, b) ==
    IF b.n > 0 THEN RatMul(a, [n |-> b.d, d |-> b.n])
    ELSE RatMul(a, [n |-> -b.d, d |-> -b.n])

\* a < b: by the integer parts, and by the fractional parts when those agree
RatLess(a, b) ==
    IF a.n \div a.d # b.n \div b.d THEN a.n \div a.d < b.n \div b.d
    ELSE (a.n % a.d) * b.d < (b.n % b.d) * a.d

RatLeq(a, b) == ~RatLess(b, a)

RatMax(a, b) == IF RatLess(a, b) THEN b ELSE a

RECURSIVE Pow10(_)
Pow10(k) == IF k = 0 THEN 1 ELSE 10 * Pow10(k - 1)

\* k further decimal digits of r/den (r < den): <<digits read as a number, remainder>>
RECURSIVE Digits(_, _, _, _)
Digits(r, den, k, acc) ==
    IF k = 0 THEN <<acc, r>>
    ELSE Digits((r * 10) % den, den, k - 1, acc * 10 + ((r * 10) \div den))

\* Python's round(x, ndigits) on a float
round(x, ndigits) ==
    LET m     == Abs(x.n)
        whole == m \div x.d
        res   == Digits(m % x.d, x.d, ndigits, 0)
        frac  == res[1]
        rest  == res[2]
        up    == 2 * rest > x.d \/ (2 * rest = x.d /\ frac % 2 = 1)
        mag   == RatAdd(Whole(whole),
                        Rat(frac + (IF up THEN 1 ELSE 0), Pow10(ndigits)))
    IN  IF x.n < 0 THEN RatNeg(mag) ELSE mag

\* a number of cents as dollars
Cents(c) == Rat(c, 100)

(***************************************************************************)
(* Optional values and list helpers.                                       *)
(***************************************************************************)
None == <<>>

Some(v) == <<v>>

Range(s) == {s[i] : i \in 1..Len(s)}

\* the list comprehension [a for a in s if a not in excluded]
RECURSIVE Without(_, _)
Without(s, excluded) ==
    IF s = <<>> THEN <<>>
    ELSE IF Head(s) \in excluded THEN Without(Tail(s), excluded)
         ELSE <<Head(s)>> \o Without(Tail(s), excluded)

\* all sequences over S of length at most k
SeqUpTo(S, k) == UNION {[1..m -> S] : m \in 0..k}

(***************************************************************************)
(* models.py: MarketData and ReplacementPolicy.                            *)
(***************************************************************************)
\* MarketData.price: dict.get, None when the symbol has no entry
price(m, symbol) ==
    IF symbol \in DOMAIN m.prices THEN Some(m.prices[symbol]) ELSE None

\* variant: the last declared cluster holding symbol
cluster_for_last(pol, symbol) ==
    LET pe   == pol.prohibited_equivalents
        hits == {i \in 1..Len(pe) : symbol \in Range(pe[i])}
    IN  IF hits = {} THEN {symbol}
        ELSE Range(pe[CHOOSE i \in hits : \A j \in hits : i >= j])

\* variant: every symbol is taken to be alone in its cluster
cluster_for_alone(pol, symbol) == {symbol}

\* ReplacementPolicy.cluster_for: the first declared cluster holding symbol
cluster_for(pol, symbol) ==
    LET pe   == pol.prohibited_equivalents
        hits == {i \in 1..Len(pe) : symbol \in Range(pe[i])}
    IN  IF hits = {} THEN {symbol}
        ELSE Range(pe[CHOOSE i \in hits : \A j \in hits : i <= j])

\* recommended_alternatives.get(symbol, []); the dict is a list of entries
\* [symbol, alts] in insertion order with distinct keys
alts_get(pol, symbol) ==
    LET ra   == pol.recommended_alternatives
        hits == {i \in 1..Len(ra) : ra[i].symbol = symbol}
    IN  IF hits = {} THEN <<>> ELSE ra[CHOOSE i \in hits : TRUE].alts

\* variant: the scan looks for a key that lies in the symbol's cluster
alts_fallback_mate(pol, symbol) ==
    LET ra   == pol.recommended_alternatives
        hits == {i \in 1..Len(ra) : ra[i].symbol \in cluster_for(pol, symbol)}
    IN  IF hits = {} THEN <<>>
        ELSE ra[CHOOSE i \in hits : \A j \in hits : i <= j].alts

\* the fallback scan of safe_alternatives: the list of the first entry whose
\* key's cluster holds symbol, [] when there is none
alts_fallback(pol, symbol) ==
    LET ra   == pol.recommended_alternatives
        hits == {i \in 1..Len(ra) : symbol \in cluster_for(pol, ra[i].symbol)}
    IN  IF hits = {} THEN <<>>
        ELSE ra[CHOOSE i \in hits : \A j \in hits : i <= j].alts

\* variant: the members of the symbol's cluster are not filtered out
safe_alternatives_unfiltered(pol, symbol) ==
    LET direct == alts_get(pol, symbol)
    IN  IF direct = <<>> THEN alts_fallback(pol, symbol) ELSE direct

\* ReplacementPolicy.safe_alternatives
safe_alternatives(pol, symbol) ==
    LET cluster == cluster_for(pol, symbol)
        direct  == alts_get(pol, symbol)
        alts    == IF direct = <<>> THEN alts_fallback(pol, symbol) ELSE direct
    IN  Without(alts, cluster)

(***************************************************************************)
(* logic.py: WashSaleNavigator.                                            *)
(***************************************************************************)
\* the reason _is_blocked returns with False: the empty string
NoReason == [text |-> "", date |-> None, symbol |-> None]

\* f"Recent buy on {rb.date.isoformat()} for {rb.symbol} triggers 30-day window"
WashReason(rb) ==
    [text |-> "Recent buy on {date} for {symbol} triggers 30-day window",
     date |-> Some(rb.date), symbol |-> Some(rb.symbol)]

NoReplacementReason ==
    [text |-> "No safe replacement with known price", date |-> None, symbol |-> None]

\* variant: the loop falls through to a blocking return
_is_blocked_fallthrough(pol, symbol, sale_date, bs) ==
    LET cluster == cluster_for(pol, symbol)
        hits    == {i \in 1..Len(bs) :
                       /\ bs[i].symbol \in cluster
                       /\ 0 <= sale_date - bs[i].date
                       /\ sale_date - bs[i].date <= 30}
    IN  IF hits = {} THEN [blocked |-> TRUE, reason |-> NoReason]
        ELSE [blocked |-> TRUE,
              reason  |-> WashReason(bs[CHOOSE i \in hits : \A j \in hits : i <= j])]

\* variant: the loop keeps going and the last matching buy is reported
_is_blocked_last(pol, symbol, sale_date, bs) ==
    LET cluster == cluster_for(pol, symbol)
        hits    == {i \in 1..Len(bs) :
                       /\ bs[i].symbol \in cluster
                       /\ 0 <= sale_date - bs[i].date
                       /\ sale_date - bs[i].date <= 30}
    IN  IF hits = {} THEN [blocked |-> FALSE, reason |-> NoReason]
        ELSE [blocked |-> TRUE,
              reason  |-> WashReason(bs[CHOOSE i \in hits : \A j \in hits : j <= i])]

\* variant: the distance in days is taken without its sign
_is_blocked_abs(pol, symbol, sale_date, bs) ==
    LET cluster == cluster_for(pol, symbol)
        hits    == {i \in 1..Len(bs) :
                       /\ bs[i].symbol \in cluster
                       /\ Abs(sale_date - bs[i].date) <= 30}
    IN  IF hits = {} THEN [blocked |-> FALSE, reason |-> NoReason]
        ELSE [blocked |-> TRUE,
              reason  |-> WashReason(bs[CHOOSE i \in hits : \A j \in hits : i <= j])]

\* variant: the window ends the day before the 30th day
_is_blocked_29(pol, symbol, sale_date, bs) ==
    LET cluster == cluster_for(pol, symbol)
        hits    == {i \in 1..Len(bs) :
                       /\ bs[i].symbol \in cluster
                       /\ 0 <= sale_date - bs[i].date
                       /\ sale_date - bs[i].date < 30}
    IN  IF hits = {} THEN [blocked |-> FALSE, reason |-> NoReason]
        ELSE [blocked |-> TRUE,
              reason  |-> WashReason(bs[CHOOSE i \in hits : \A j \in hits : i <= j])]

\* WashSaleNavigator._is_blocked: (blocked, reason) of the first buy that matches
_is_blocked(pol, symbol, sale_date, bs) ==
    LET cluster == cluster_for(pol, symbol)
        hits    == {i \in 1..Len(bs) :
                       /\ bs[i].symbol \in cluster
                       /\ 0 <= sale_date - bs[i].date
                       /\ sale_date - bs[i].date <= 30}
    IN  IF hits = {} THEN [blocked |-> FALSE, reason |-> NoReason]
        ELSE [blocked |-> TRUE,
              reason  |-> WashReason(bs[CHOOSE i \in hits : \A j \in hits : i <= j])]

\* variant: a price of exactly 0.01 is accepted
usable_price_floor(px) == px # None /\ px[1].n # 0 /\ RatLeq(Rat(1, 100), px[1])

\* "if px and px > 0.01" on an Optional[float]
usable_price(px) == px # None /\ px[1].n # 0 /\ RatLess(Rat(1, 100), px[1])

\* variant: the last usable alternative is taken
_pick_replacement_last(pol, symbol, proceeds, m) ==
    LET alts == safe_alternatives(pol, symbol)
        hits == {i \in 1..Len(alts) : usable_price(price(m, alts[i]))}
    IN  IF hits = {} THEN [symbol |-> None, qty |-> None, px |-> None]
        ELSE LET alt == alts[CHOOSE i \in hits : \A j \in hits : j <= i]
                 px  == price(m, alt)[1]
             IN  [symbol |-> Some(alt), qty |-> Some(RatDiv(proceeds, px)),
                  px |-> Some(px)]

\* WashSaleNavigator._pick_replacement: (alt, qty, px) of the first usable alternative
_pick_replacement(pol, symbol, proceeds, m) ==
    LET alts == safe_alternatives(pol, symbol)
        hits == {i \in 1..Len(alts) : usable_price(price(m, alts[i]))}
    IN  IF hits = {} THEN [symbol |-> None, qty |-> None, px |-> None]
        ELSE LET alt == alts[CHOOSE i \in hits : \A j \in hits : i <= j]
                 px  == price(m, alt)[1]
             IN  [symbol |-> Some(alt), qty |-> Some(RatDiv(proceeds, px)),
                  px |-> Some(px)]

\* variant: a lot without replacement is not blocked
after_pick_keep(wash, repl) == wash

\* build_plan, lines 59-63: (blocked, reason) once the replacement was looked for
after_pick(wash, repl) ==
    IF ~wash.blocked /\ repl.symbol = None
    THEN [blocked |-> TRUE, reason |-> NoReplacementReason]
    ELSE wash

\* variant: the per-share loss is not multiplied by the shares
loss_total_of_per_share(lot, px) ==
    LET pnl == RatSub(px, lot.cost_basis_per_share)
    IN  IF pnl.n < 0 THEN RatNeg(pnl) ELSE Zero

\* build_plan, lines 45-46: loss_total of a lot at price px
loss_total_of(lot, px) ==
    LET pnl == RatSub(px, lot.cost_basis_per_share)
    IN  RatMul(IF pnl.n < 0 THEN RatNeg(pnl) ELSE Zero, lot.shares)

\* build_plan, line 47: loss_pct; max(cost, 1e-9) guards the division
loss_pct_of(lot, px) ==
    IF lot.cost_basis_per_share.n > 0
    THEN RatDiv(RatSub(lot.cost_basis_per_share, px),
                RatMax(lot.cost_basis_per_share, Rat(1, 1000000000)))
    ELSE Zero

\* variant: the lot is skipped only when it is below both thresholds
below_threshold_both(lot, px, min_dollars, min_pct) ==
    /\ RatLess(loss_total_of(lot, px), min_dollars)
    /\ RatLess(loss_pct_of(lot, px), min_pct)

\* build_plan, line 49: the lot is skipped
below_threshold(lot, px, min_dollars, min_pct) ==
    \/ RatLess(loss_total_of(lot, px), min_dollars)
    \/ RatLess(loss_pct_of(lot, px), min_pct)

\* variant: the test is on the truth value, so 0.0 is taken for None
round_opt_truthy(v, ndigits) ==
    IF v = None \/ v[1].n = 0 THEN None ELSE Some(round(v[1], ndigits))

\* optional round: None if v is None else round(v, ndigits)
round_opt(v, ndigits) == IF v = None THEN None ELSE Some(round(v[1], ndigits))

\* variant: re-entry on the last day of the window
reentry_date_30(today) == today + 30

\* the re-entry date of a sale: today + dt.timedelta(days=31)
reentry_date(today) == today + 31

\* build_plan, lines 65-79: the HarvestItem of a lot
HarvestItem(lot, i, px, today, blocked, reason, repl) ==
    [symbol                |-> lot.symbol,
     lot_index             |-> i,
     shares_to_sell        |-> round(lot.shares, 6),
     sale_price            |-> px,
     loss_dollars          |-> round(loss_total_of(lot, px), 2),
     replacement_symbol    |-> repl.symbol,
     replacement_shares    |-> round_opt(repl.qty, 6),
     replacement_price     |-> repl.px,
     sale_date             |-> today,
     reentry_date_ok_after |-> reentry_date(today),
     wash_sale_blocked     |-> blocked,
     block_reason          |-> IF blocked THEN Some(reason) ELSE None,
     notes                 |-> None]

\* variant: the unrounded loss is accumulated
add_loss_raw(total, item, loss_total) == RatAdd(total, loss_total)

\* build_plan, line 82: total_loss += item.loss_dollars
add_loss(total, item, loss_total) == RatAdd(total, item.loss_dollars)

\* build_plan, lines 83-84: cash_delta += proceeds - repl_cost
add_cash(cash, proceeds, repl) ==
    LET repl_shares == IF repl.qty = None THEN Zero ELSE repl.qty[1]
        repl_price  == IF repl.px = None THEN Zero ELSE repl.px[1]
    IN  RatAdd(cash, RatSub(proceeds, RatMul(repl_shares, repl_price)))

\* build_plan, lines 88-93: the HarvestPlan
HarvestPlan(today, its, total, cash) ==
    [asof                   |-> today,
     items                  |-> its,
     total_harvestable_loss |-> round(total, 2),
     simulated_cash_delta   |-> round(cash, 2),
     policy_version         |-> "demo-1"]

\* build_plan, lines 95-100: the message of the first ValueError, "" when none
validation_error(pl, pol) ==
    LET identical(it) ==
            /\ ~it.wash_sale_blocked
            /\ it.replacement_symbol # None
            /\ it.replacement_symbol[1] \in cluster_for(pol, it.symbol)
        too_early(it) ==
            /\ ~it.wash_sale_blocked
            /\ it.reentry_date_ok_after - it.sale_date < 31
        bad == {i \in 1..Len(pl.items) :
                   identical(pl.items[i]) \/ too_early(pl.items[i])}
    IN  IF bad = {} THEN ""
        ELSE IF identical(pl.items[CHOOSE i \in bad : \A j \in bad : i <= j])
             THEN "Replacement is substantially identical"
             ELSE "Re-entry date violates 31-day rule"

(***************************************************************************)
(* The inputs of a call.  Prices and cost bases are dollars, dates are day *)
(* numbers; Today is the day the harvest is planned for.                   *)
(***************************************************************************)
MaxLots == 2

MaxBuys == 2

Symbols == {"SPY", "VOO", "VTI", "XLK"}

TaxLot(symbol, shares, buy_date, cost) ==
    [symbol |-> symbol, shares |-> shares, buy_date |-> buy_date,
     cost_basis_per_share |-> cost]

RecentBuy(date, symbol, shares) ==
    [date |-> date, symbol |-> symbol, shares |-> shares]

MarketData(asof, prices) == [asof |-> asof, prices |-> prices]

ReplacementPolicy(clusters, alternatives) ==
    [prohibited_equivalents |-> clusters, recommended_alternatives |-> alternatives]

Alt(symbol, alts) == [symbol |-> symbol, alts |-> alts]

\* disjoint clusters; VOO has no list of its own and falls back on SPY's
DisjointPolicy ==
    ReplacementPolicy(<< <<"SPY", "VOO">> >>,
                      << Alt("SPY", <<"VTI", "XLK">>), Alt("VTI", <<"XLK">>),
                         Alt("XLK", <<"VTI">>) >>)

\* disjoint clusters; SPY's list names members of SPY's own cluster
SelfListingPolicy ==
    ReplacementPolicy(<< <<"SPY", "VOO">>, <<"VTI">> >>,
                      << Alt("VOO", <<>>), Alt("SPY", <<"VOO", "SPY", "XLK">>),
                         Alt("VTI", <<"XLK">>) >>)

\* VOO is declared in two clusters
OverlappingPolicy ==
    ReplacementPolicy(<< <<"SPY", "VOO">>, <<"VOO", "VTI">> >>,
                      << Alt("VTI", <<"VOO", "SPY", "XLK">>),
                         Alt("SPY", <<"VTI", "XLK">>) >>)

EmptyPolicy == ReplacementPolicy(<<>>, <<>>)

Policies == {DisjointPolicy, SelfListingPolicy, OverlappingPolicy, EmptyPolicy}

\* (min_loss_dollars, min_loss_pct): no threshold, and the defaults 200.0 and 0.05
Thresholds == {<<Zero, Zero>>, <<Whole(200), Rat(5, 100)>>}

Today == 100

Markets ==
    { MarketData(Today, [s \in Symbols |->
          CASE s = "SPY" -> Whole(494) [] s = "VOO" -> Cents(49990)
            [] s = "VTI" -> Whole(250) [] s = "XLK" -> Whole(225)]),
      MarketData(Today, [s \in Symbols |->
          CASE s = "SPY" -> Whole(500) [] s = "VOO" -> Cents(49990)
            [] s = "VTI" -> Cents(1) [] s = "XLK" -> Whole(30000)]),
      MarketData(Today + 1, [s \in {"SPY", "VTI", "XLK"} |->
          CASE s = "SPY" -> Whole(494) [] s = "VTI" -> Zero
            [] s = "XLK" -> Whole(225)]),
      MarketData(Today + 1, [s \in {"VOO", "VTI", "XLK"} |->
          CASE s = "VOO" -> Cents(49990) [] s = "VTI" -> Cents(2)
            [] s = "XLK" -> Whole(225)]) }

LotPool ==
    { TaxLot("SPY", Whole(50), Today - 120, Whole(520)),
      TaxLot("VOO", Rat(4, 10), Today - 90, Cents(49994)),
      TaxLot("VTI", Whole(10), Today - 200, Whole(270)),
      TaxLot("XLK", Whole(2), Today - 400, Whole(300)) }

BuyPool ==
    { RecentBuy(Today - 30, "VOO", Whole(5)),
      RecentBuy(Today, "SPY", Whole(1)),
      RecentBuy(Today + 1, "VTI", Whole(5)),
      RecentBuy(Today - 31, "XLK", Whole(5)) }

\* the navigator is used as a library: no server, no database
NoServer == db = <<>> /\ clock = Today /\ resp = None /\ built = None /\ building = None

(***************************************************************************)
(* One call of build_plan(lots, market, buys) on a navigator.              *)
(***************************************************************************)
Init ==
    /\ policy \in Policies
    /\ \E t \in Thresholds : min_loss_dollars = t[1] /\ min_loss_pct = t[2]
    /\ lots \in SeqUpTo(LotPool, MaxLots)
    /\ market \in Markets
    /\ buys \in SeqUpTo(BuyPool, MaxBuys)
    /\ pc = "loop"
    /\ idx = 0
    /\ items = <<>>
    /\ total_loss = Zero
    /\ cash_delta = Zero
    /\ plan = None
    /\ error = ""
    /\ text = None
    /\ calls = <<>>
    /\ NoServer

\* variant: the lots are walked from the last to the first
lot_reversed == lots[Len(lots) - idx]

\* the lot of the current iteration, enumerate(lots) counting from 0
lot == lots[idx + 1]

today == market.asof

InLoop == pc = "loop" /\ idx < Len(lots)

\* line 43: the lot's symbol has no price
SkipNoPrice ==
    /\ InLoop
    /\ price(market, lot.symbol) = None
    /\ idx' = idx + 1
    /\ UNCHANGED <<inputs, pc, items, total_loss, cash_delta, plan, error>>
    /\ UNCHANGED outside

\* line 49: the loss is below a threshold
SkipBelowThreshold ==
    /\ InLoop
    /\ price(market, lot.symbol) # None
    /\ below_threshold(lot, price(market, lot.symbol)[1], min_loss_dollars, min_loss_pct)
    /\ idx' = idx + 1
    /\ UNCHANGED <<inputs, pc, items, total_loss, cash_delta, plan, error>>
    /\ UNCHANGED outside

\* lines 52-86 for a lot that passed the thresholds
EmitItem ==
    /\ InLoop
    /\ price(market, lot.symbol) # None
    /\ LET px       == price(market, lot.symbol)[1]
           wash     == _is_blocked(policy, lot.symbol, today, buys)
           proceeds == RatMul(lot.shares, px)
           repl     == IF wash.blocked
                       THEN [symbol |-> None, qty |-> None, px |-> None]
                       ELSE _pick_replacement(policy, lot.symbol, proceeds, market)
           final    == after_pick(wash, repl)
           blocked  == final.blocked
           reason   == final.reason
           item     == HarvestItem(lot, idx, px, today, blocked, reason, repl)
       IN  /\ ~below_threshold(lot, px, min_loss_dollars, min_loss_pct)
           /\ items' = Append(items, item)
           /\ total_loss' = IF blocked THEN total_loss
                            ELSE add_loss(total_loss, item, loss_total_of(lot, px))
           /\ cash_delta' = IF blocked THEN cash_delta
                            ELSE add_cash(cash_delta, proceeds, repl)
    /\ idx' = idx + 1
    /\ UNCHANGED <<inputs, pc, plan, error>>
    /\ UNCHANGED outside

\* lines 88-93: the loop is over, the plan is assembled
AssemblePlan ==
    /\ pc = "loop"
    /\ idx = Len(lots)
    /\ plan' = Some(HarvestPlan(today, items, total_loss, cash_delta))
    /\ pc' = "validate"
    /\ UNCHANGED <<inputs, idx, items, total_loss, cash_delta, error>>
    /\ UNCHANGED outside

\* lines 95-101: the sanity validation; the plan is returned or ValueError is raised
Validate ==
    /\ pc = "validate"
    /\ error' = validation_error(plan[1], policy)
    /\ pc' = IF error' = "" THEN "returned" ELSE "raised"
    /\ UNCHANGED <<inputs, idx, items, total_loss, cash_delta, plan>>
    /\ UNCHANGED outside

Next == SkipNoPrice \/ SkipBelowThreshold \/ EmitItem \/ AssemblePlan \/ Validate

Spec == Init /\ [][Next]_vars

(***************************************************************************)
(* logic.py: explain_plan.  A text is the list of its lines; a line is     *)
(* the record of what is printed in it.  ":,.2f" prints a number to 2      *)
(* decimals and ":.4f" to 4.                                               *)
(***************************************************************************)
\* lines 163-170: the line of one item
item_line(it) ==
    IF it.wash_sale_blocked
    THEN [kind |-> "BLOCKED", symbol |-> it.symbol, lot_index |-> it.lot_index,
          reason |-> it.block_reason]
    ELSE [kind |-> "SELL", symbol |-> it.symbol, lot_index |-> it.lot_index,
          loss |-> round(it.loss_dollars, 2), buy |-> it.replacement_symbol,
          shares |-> round(it.replacement_shares[1], 4),
          reenter |-> it.reentry_date_ok_after]

\* ":.4f" applied to None raises TypeError
unprintable(it) == ~it.wash_sale_blocked /\ it.replacement_shares = None

\* variant: only the items to sell are listed
fallback_lines_sells(pl) ==
    LET head  == <<[kind |-> "AS_OF", asof |-> pl.asof,
                    loss |-> round(pl.total_harvestable_loss, 2)]>>
        drift == IF RatLess(Rat(1, 100), [n |-> Abs(pl.simulated_cash_delta.n),
                                          d |-> pl.simulated_cash_delta.d])
                 THEN <<[kind |-> "DRIFT", cash |-> round(pl.simulated_cash_delta, 2)]>>
                 ELSE <<>>
        sells == SelectSeq(pl.items, LAMBDA it : ~it.wash_sale_blocked)
        body  == [i \in 1..Len(sells) |-> item_line(sells[i])]
    IN  head \o drift \o body \o <<[kind |-> "DEMO_ONLY"]>>

\* lines 157-172: the deterministic fallback text
fallback_lines(pl) ==
    LET head  == <<[kind |-> "AS_OF", asof |-> pl.asof,
                    loss |-> round(pl.total_harvestable_loss, 2)]>>
        drift == IF RatLess(Rat(1, 100), [n |-> Abs(pl.simulated_cash_delta.n),
                                          d |-> pl.simulated_cash_delta.d])
                 THEN <<[kind |-> "DRIFT", cash |-> round(pl.simulated_cash_delta, 2)]>>
                 ELSE <<>>
        body  == [i \in 1..Len(pl.items) |-> item_line(pl.items[i])]
    IN  head \o drift \o body \o <<[kind |-> "DEMO_ONLY"]>>

\* lines 128-172: explain_plan(plan) on the plan build_plan returned.  The
\* language model answers with some text, or the call raises (the package or
\* the server is missing) and the fallback text is returned.
Explain ==
    /\ pc = "returned"
    /\ \E answered \in BOOLEAN :
           IF answered
           THEN /\ text' = Some([via |-> "llm", lines |-> <<[kind |-> "LLM"]>>])
                /\ pc' = "explained"
                /\ error' = error
           ELSE IF \E i \in 1..Len(plan[1].items) : unprintable(plan[1].items[i])
           THEN /\ text' = None
                /\ pc' = "raised"
                /\ error' = "TypeError"
           ELSE /\ text' = Some([via |-> "fallback", lines |-> fallback_lines(plan[1])])
                /\ pc' = "explained"
                /\ error' = error
    /\ UNCHANGED <<inputs, idx, items, total_loss, cash_delta, plan, calls>>
    /\ UNCHANGED <<db, clock, resp, built, building>>

(***************************************************************************)
(* The demo data: demo_policy (logic.py) and the rows of seed.py, planned  *)
(* on the day of the seed or the day after.                                *)
(***************************************************************************)
demo_policy ==
    ReplacementPolicy(
        << <<"SPY", "IVV", "VOO">>, <<"QQQ", "QQQM">>, <<"VTI", "ITOT", "SCHB">> >>,
        << Alt("SPY", <<"VTI", "SCHX", "ITOT">>),
           Alt("IVV", <<"VTI", "SCHX", "ITOT">>),
           Alt("VOO", <<"VTI", "SCHX", "ITOT">>),
           Alt("QQQ", <<"SCHG", "XLK", "IYW">>),
           Alt("QQQM", <<"SCHG", "XLK", "IYW">>),
           Alt("VTI", <<"SCHX", "VTV", "SCHF">>),
           Alt("ITOT", <<"SCHX", "VTV", "SCHF">>),
           Alt("SCHB", <<"SCHX", "VTV", "SCHF">>),
           Alt("AAPL", <<"XLK", "VGT">>),
           Alt("TSLA", <<"XLY", "CARZ", "DRIV">>),
           Alt("NVDA", <<"SOXX", "SMH">>) >>)

SeedLots ==
    { TaxLot("SPY", Whole(50), Today - 120, Whole(520)),
      TaxLot("QQQ", Whole(30), Today - 90, Whole(480)),
      TaxLot("AAPL", Whole(40), Today - 400, Whole(195)),
      TaxLot("TSLA", Whole(20), Today - 70, Whole(270)),
      TaxLot("NVDA", Whole(10), Today - 50, Whole(130)),
      TaxLot("VTI", Whole(60), Today - 200, Whole(260)) }

\* a lot of 1.0000004 shares, as a reinvested dividend leaves one
FractionalLot == TaxLot("TSLA", Rat(10000004, 10000000), Today - 70, Whole(270))

SeedBuys ==
    { RecentBuy(Today - 15, "VOO", Whole(5)),
      RecentBuy(Today - 15, "AAPL", Whole(5)) }

SeedPrices ==
    [s \in {"SPY", "IVV", "VOO", "VTI", "ITOT", "SCHB", "SCHX", "VTV", "SCHF",
            "QQQ", "QQQM", "SCHG", "XLK", "IYW", "AAPL", "VGT", "TSLA", "XLY",
            "CARZ", "DRIV", "NVDA", "SOXX", "SMH"} |->
        CASE s = "SPY" -> Whole(500)   [] s = "IVV" -> Cents(50010)
          [] s = "VOO" -> Cents(49990) [] s = "VTI" -> Whole(250)
          [] s = "ITOT" -> Cents(24850) [] s = "SCHB" -> Cents(24975)
          [] s = "SCHX" -> Whole(52)   [] s = "VTV" -> Whole(160)
          [] s = "SCHF" -> Whole(36)   [] s = "QQQ" -> Whole(455)
          [] s = "QQQM" -> Whole(354)  [] s = "SCHG" -> Whole(77)
          [] s = "XLK" -> Whole(225)   [] s = "IYW" -> Whole(120)
          [] s = "AAPL" -> Whole(178)  [] s = "VGT" -> Whole(540)
          [] s = "TSLA" -> Whole(245)  [] s = "XLY" -> Whole(180)
          [] s = "CARZ" -> Whole(52)   [] s = "DRIV" -> Whole(28)
          [] s = "NVDA" -> Whole(115)  [] s = "SOXX" -> Whole(210)
          [] s = "SMH" -> Whole(195)]

\* the seeded prices, and the day after with the rows of NVDA and XLK missing
DemoMarkets ==
    { MarketData(Today, SeedPrices),
      MarketData(Today + 1,
                 [s \in DOMAIN SeedPrices \ {"NVDA", "XLK"} |-> SeedPrices[s]]) }

InitDemo ==
    /\ policy = demo_policy
    /\ \E t \in Thresholds : min_loss_dollars = t[1] /\ min_loss_pct = t[2]
    /\ lots \in SeqUpTo(SeedLots \cup {FractionalLot}, MaxLots)
    /\ market \in DemoMarkets
    /\ buys \in SeqUpTo(SeedBuys, MaxBuys)
    /\ pc = "loop"
    /\ idx = 0
    /\ items = <<>>
    /\ total_loss = Zero
    /\ cash_delta = Zero
    /\ plan = None
    /\ error = ""
    /\ text = None
    /\ calls = <<>>
    /\ NoServer

NextDemo == Next \/ Explain

SpecDemo == InitDemo /\ [][NextDemo]_vars

(***************************************************************************)
(* build_plan as a function of its frame.  A frame holds the arguments of  *)
(* one call and its local variables; the navigator (policy, thresholds) is *)
(* the object the call is made on.                                         *)
(***************************************************************************)
Frame(ls, m, bs) ==
    [lots |-> ls, market |-> m, buys |-> bs, pc |-> "loop", idx |-> 0,
     items |-> <<>>, total_loss |-> Zero, cash_delta |-> Zero,
     plan |-> None, error |-> ""]

\* what the next step of build_plan is in frame f
step_kind(f, min_dollars, min_pct) ==
    IF f.pc = "loop" /\ f.idx < Len(f.lots)
    THEN LET l  == f.lots[f.idx + 1]
             px == price(f.market, l.symbol)
         IN  IF px = None THEN "skip"
             ELSE IF below_threshold(l, px[1], min_dollars, min_pct) THEN "skip"
             ELSE "emit"
    ELSE IF f.pc = "loop" THEN "assemble"
    ELSE IF f.pc = "validate" THEN "validate"
    ELSE "done"

\* lines 52-86 in frame f
emit_step(f, pol) ==
    LET l        == f.lots[f.idx + 1]
        px       == price(f.market, l.symbol)[1]
        wash     == _is_blocked(pol, l.symbol, f.market.asof, f.buys)
        proceeds == RatMul(l.shares, px)
        repl     == IF wash.blocked
                    THEN [symbol |-> None, qty |-> None, px |-> None]
                    ELSE _pick_replacement(pol, l.symbol, proceeds, f.market)
        final    == after_pick(wash, repl)
        item     == HarvestItem(l, f.idx, px, f.market.asof, final.blocked,
                                final.reason, repl)
    IN  [f EXCEPT !.idx = @ + 1,
                  !.items = Append(@, item),
                  !.total_loss = IF final.blocked THEN @
                                 ELSE add_loss(@, item, loss_total_of(l, px)),
                  !.cash_delta = IF final.blocked THEN @
                                 ELSE add_cash(@, proceeds, repl)]

\* one step of build_plan (lines 36-101) in frame f
build_plan_step(f, pol, min_dollars, min_pct) ==
    LET kind == step_kind(f, min_dollars, min_pct)
    IN  CASE kind = "skip" -> [f EXCEPT !.idx = @ + 1]
          [] kind = "emit" -> emit_step(f, pol)
          [] kind = "assemble" ->
                 [f EXCEPT !.plan = Some(HarvestPlan(f.market.asof, f.items,
                                                     f.total_loss, f.cash_delta)),
                           !.pc = "validate"]
          [] kind = "validate" ->
                 LET e == validation_error(f.plan[1], pol)
                 IN  [f EXCEPT !.error = e,
                               !.pc = IF e = "" THEN "returned" ELSE "raised"]
          [] OTHER -> f

\* the frame at the end of a call that runs from f without interruption
RECURSIVE run_to_end(_, _, _, _)
run_to_end(f, pol, min_dollars, min_pct) ==
    IF step_kind(f, min_dollars, min_pct) = "done" THEN f
    ELSE run_to_end(build_plan_step(f, pol, min_dollars, min_pct),
                    pol, min_dollars, min_pct)

\* WashSaleNavigator(pol, min_dollars, min_pct).build_plan(ls, m, bs)
build_plan(pol, min_dollars, min_pct, ls, m, bs) ==
    run_to_end(Frame(ls, m, bs), pol, min_dollars, min_pct)

(***************************************************************************)
(* Two calls of build_plan on one navigator, their steps interleaved as a  *)
(* scheduler may interleave two threads.  calls maps a call to its frame.  *)
(***************************************************************************)
CallIds == {"first", "second"}

\* variant: the accumulators are kept in one place for all calls
acc_frame_shared(c) == CHOOSE k \in CallIds : k = "first"

\* the frame that holds items, total_loss and cash_delta of call c: they are
\* locals of the call (lines 36-39)
acc_frame(c) == c

\* the frame call c computes on
view(c) ==
    [calls[c] EXCEPT !.items = calls[acc_frame(c)].items,
                     !.total_loss = calls[acc_frame(c)].total_loss,
                     !.cash_delta = calls[acc_frame(c)].cash_delta]

\* calls after call c has taken a step that left its frame as g
after_step(c, g) ==
    [k \in CallIds |->
        IF k = acc_frame(c)
        THEN [(IF k = c THEN g ELSE calls[k])
                  EXCEPT !.items = g.items,
                         !.total_loss = g.total_loss,
                         !.cash_delta = g.cash_delta]
        ELSE IF k = c
        THEN [g EXCEPT !.items = calls[k].items,
                       !.total_loss = calls[k].total_loss,
                       !.cash_delta = calls[k].cash_delta]
        ELSE calls[k]]

\* a call passes over a lot: no price, or a loss below a threshold
CallSkip ==
    /\ \E c \in CallIds : \E f \in {view(c)} :
           /\ step_kind(f, min_loss_dollars, min_loss_pct) = "skip"
           /\ \E g \in {build_plan_step(f, policy, min_loss_dollars, min_loss_pct)} :
                  calls' = after_step(c, g)
    /\ UNCHANGED <<inputs, pc, idx, items, total_loss, cash_delta, plan, error, text>>
    /\ UNCHANGED <<db, clock, resp, built, building>>

\* a call appends the item of a lot
CallEmit ==
    /\ \E c \in CallIds : \E f \in {view(c)} :
           /\ step_kind(f, min_loss_dollars, min_loss_pct) = "emit"
           /\ \E g \in {build_plan_step(f, policy, min_loss_dollars, min_loss_pct)} :
                  calls' = after_step(c, g)
    /\ UNCHANGED <<inputs, pc, idx, items, total_loss, cash_delta, plan, error, text>>
    /\ UNCHANGED <<db, clock, resp, built, building>>

\* a call leaves its loop and assembles its plan
CallAssemble ==
    /\ \E c \in CallIds : \E f \in {view(c)} :
           /\ step_kind(f, min_loss_dollars, min_loss_pct) = "assemble"
           /\ \E g \in {build_plan_step(f, policy, min_loss_dollars, min_loss_pct)} :
                  calls' = after_step(c, g)
    /\ UNCHANGED <<inputs, pc, idx, items, total_loss, cash_delta, plan, error, text>>
    /\ UNCHANGED <<db, clock, resp, built, building>>

\* a call validates its plan and returns it
CallValidate ==
    /\ \E c \in CallIds : \E f \in {view(c)} :
           /\ step_kind(f, min_loss_dollars, min_loss_pct) = "validate"
           /\ \E g \in {build_plan_step(f, policy, min_loss_dollars, min_loss_pct)} :
                  calls' = after_step(c, g)
    /\ UNCHANGED <<inputs, pc, idx, items, total_loss, cash_delta, plan, error, text>>
    /\ UNCHANGED <<db, clock, resp, built, building>>

\* the inputs of the two calls
CallLots ==
    { TaxLot("SPY", Whole(50), Today - 120, Whole(520)),
      TaxLot("VTI", Whole(10), Today - 200, Whole(270)) }

CallMarkets ==
    { MarketData(Today, [s \in Symbols |->
          CASE s = "SPY" -> Whole(494) [] s = "VOO" -> Cents(49990)
            [] s = "VTI" -> Whole(250) [] s = "XLK" -> Whole(225)]),
      MarketData(Today + 1, [s \in {"SPY", "XLK"} |->
          CASE s = "SPY" -> Whole(490) [] s = "XLK" -> Whole(225)]) }

CallBuys == { <<>>, <<RecentBuy(Today - 30, "VOO", Whole(5))>> }

InitCalls ==
    /\ policy \in {DisjointPolicy, OverlappingPolicy}
    /\ \E t \in Thresholds : min_loss_dollars = t[1] /\ min_loss_pct = t[2]
    /\ calls \in [CallIds -> {Frame(ls, m, bs) : ls \in SeqUpTo(CallLots, MaxLots),
                                                 m \in CallMarkets, bs \in CallBuys}]
    /\ lots = <<>>
    /\ market = MarketData(Today, <<>>)
    /\ buys = <<>>
    /\ pc = "idle"
    /\ idx = 0
    /\ items = <<>>
    /\ total_loss = Zero
    /\ cash_delta = Zero
    /\ plan = None
    /\ error = ""
    /\ text = None
    /\ NoServer

NextCalls == CallSkip \/ CallEmit \/ CallAssemble \/ CallValidate

SpecCalls == InitCalls /\ [][NextCalls]_vars

(***************************************************************************)
(* db.py: the SQLite tables and their helpers.  A table with a rowid is    *)
(* the list of its rows, a table with a primary key is the set of its rows *)
(* (market_prices: a function of the symbol).  A date is stored as its     *)
(* ISO string, written [iso |-> day]; a REAL column holds the float it was *)
(* given.  created_at is never read and is left out.                       *)
(***************************************************************************)
isoformat(d) == [iso |-> d]

fromisoformat(str) == str.iso

\* init_db on a new file
EmptyDb ==
    [lots |-> <<>>, recent_buys |-> <<>>, market_prices |-> <<>>,
     policy_clusters |-> {}, policy_alternatives |-> {},
     plans |-> <<>>, plan_items |-> {}, plan_seq |-> 0]

\* clear_all: every table is emptied; AUTOINCREMENT keeps counting
clear_all(d) == [EmptyDb EXCEPT !.plan_seq = d.plan_seq]

insert_lots(d, rows) == [d EXCEPT !.lots = @ \o rows]

insert_recent_buys(d, rows) == [d EXCEPT !.recent_buys = @ \o rows]

\* upsert_prices: the rows of the given symbols get the price and the as-of date
upsert_prices(d, asof, prices) ==
    [d EXCEPT !.market_prices =
        [sym \in DOMAIN @ \cup DOMAIN prices |->
            IF sym \in DOMAIN prices
            THEN [price |-> prices[sym], asof |-> asof]
            ELSE @[sym]]]

set_policy(d, clusters, alternatives) ==
    [d EXCEPT !.policy_clusters = clusters, !.policy_alternatives = alternatives]

fetch_lots(d) == d.lots

\* fetch_recent_buys: ORDER BY date DESC; rows of one date come in any order
fetch_recent_buys(d) ==
    LET rows == d.recent_buys
        n    == Len(rows)
    IN  IF n = 0 THEN {<<>>}
        ELSE {[i \in 1..n |-> rows[p[i]]] :
                 p \in {q \in Permutations(1..n) :
                           \A i, j \in 1..n :
                               i < j => rows[q[i]].date.iso >= rows[q[j]].date.iso}}

\* fetch_market: next(iter(asofs)) is some as-of date of the table, today's
\* date when the table is empty
fetch_market(d, now) ==
    LET asofs  == {d.market_prices[sym].asof : sym \in DOMAIN d.market_prices}
        prices == [sym \in DOMAIN d.market_prices |-> d.market_prices[sym].price]
    IN  {<<asof, prices>> : asof \in IF asofs = {} THEN {isoformat(now)} ELSE asofs}

\* insert_plan: the new row takes the next id, which is returned as plan_seq
insert_plan(d, asof, total, cash) ==
    [d EXCEPT !.plan_seq = @ + 1,
              !.plans = Append(@, [id |-> d.plan_seq + 1, asof |-> asof,
                                   total_loss |-> total, cash_delta |-> cash])]

insert_plan_items(d, plan_id, items_json) ==
    [d EXCEPT !.plan_items = @ \cup
        {[plan_id |-> plan_id, item_index |-> i - 1, data_json |-> items_json[i]] :
            i \in 1..Len(items_json)}]

\* variant: ORDER BY id ASC
fetch_latest_plan_oldest(d) ==
    IF d.plans = <<>> THEN None
    ELSE Some(CHOOSE r \in Range(d.plans) : \A q \in Range(d.plans) : r.id <= q.id)

\* fetch_latest_plan: ORDER BY id DESC LIMIT 1
fetch_latest_plan(d) ==
    IF d.plans = <<>> THEN None
    ELSE Some(CHOOSE r \in Range(d.plans) : \A q \in Range(d.plans) : q.id <= r.id)

\* fetch_plan_items: the data_json of the plan's rows, ORDER BY item_index
fetch_plan_items(d, plan_id) ==
    LET rows == {r \in d.plan_items : r.plan_id = plan_id}
    IN  [i \in 1..Cardinality(rows) |->
            (CHOOSE r \in rows :
                 Cardinality({q \in rows : q.item_index < r.item_index}) = i - 1).data_json]

(***************************************************************************)
(* seed.py and main.py: the routes of the server.                          *)
(***************************************************************************)
\* the symbols in the order SQLite's BINARY collation gives them
Alphabetical ==
    <<"AAPL", "CARZ", "DRIV", "ITOT", "IVV", "IYW", "NVDA", "QQQ", "QQQM", "SCHB",
      "SCHF", "SCHG", "SCHX", "SMH", "SOXX", "SPY", "TSLA", "VGT", "VOO", "VTI",
      "VTV", "XLK", "XLY">>

\* the members of S in alphabetical order
Sorted(S) == SelectSeq(Alphabetical, LAMBDA x : x \in S)

\* the lots of seed_demo, in their order
SeedLotRows ==
    << [symbol |-> "SPY", shares |-> Whole(50), buy_date |-> 120, cost |-> Whole(520)],
       [symbol |-> "QQQ", shares |-> Whole(30), buy_date |-> 90, cost |-> Whole(480)],
       [symbol |-> "AAPL", shares |-> Whole(40), buy_date |-> 400, cost |-> Whole(195)],
       [symbol |-> "TSLA", shares |-> Whole(20), buy_date |-> 70, cost |-> Whole(270)],
       [symbol |-> "NVDA", shares |-> Whole(10), buy_date |-> 50, cost |-> Whole(130)],
       [symbol |-> "VTI", shares |-> Whole(60), buy_date |-> 200, cost |-> Whole(260)] >>

\* seed_demo: the tables after POST /seed/demo on day now
seed_demo(d, now) ==
    LET lot_rows == [i \in 1..Len(SeedLotRows) |->
                        [symbol |-> SeedLotRows[i].symbol,
                         shares |-> SeedLotRows[i].shares,
                         buy_date |-> isoformat(now - SeedLotRows[i].buy_date),
                         cost_basis_per_share |-> SeedLotRows[i].cost]]
        buy_rows == << [symbol |-> "VOO", shares |-> Whole(5),
                        date |-> isoformat(now - 15)],
                       [symbol |-> "AAPL", shares |-> Whole(5),
                        date |-> isoformat(now - 15)] >>
        pol      == demo_policy
    IN  set_policy(
            upsert_prices(
                insert_recent_buys(insert_lots(clear_all(d), lot_rows), buy_rows),
                isoformat(now), SeedPrices),
            UNION {{[cluster_id |-> c, symbol |-> sym] :
                       sym \in Range(pol.prohibited_equivalents[c])} :
                      c \in 1..Len(pol.prohibited_equivalents)},
            UNION {{[symbol |-> pol.recommended_alternatives[e].symbol, alt_symbol |-> a] :
                       a \in Range(pol.recommended_alternatives[e].alts)} :
                      e \in 1..Len(pol.recommended_alternatives)})

\* _policy_from_db: clusters by cluster_id then symbol, lists by symbol then
\* alt_symbol; demo_policy() when both tables are empty
_policy_from_db(d) ==
    LET ids      == {r.cluster_id : r \in d.policy_clusters}
        byid     == [k \in 1..Cardinality(ids) |->
                        CHOOSE c \in ids : Cardinality({b \in ids : b < c}) = k - 1]
        clusters == [k \in 1..Cardinality(ids) |->
                        Sorted({r.symbol : r \in {q \in d.policy_clusters :
                                                     q.cluster_id = byid[k]}})]
        keys     == Sorted({r.symbol : r \in d.policy_alternatives})
        alts     == [k \in 1..Len(keys) |->
                        Alt(keys[k],
                            Sorted({r.alt_symbol : r \in {q \in d.policy_alternatives :
                                                             q.symbol = keys[k]}}))]
    IN  IF d.policy_clusters = {} /\ d.policy_alternatives = {} THEN demo_policy
        ELSE ReplacementPolicy(clusters, alts)

\* _load_state: the lots and the recent buys as model objects
lots_of(rows) ==
    [i \in 1..Len(rows) |->
        TaxLot(rows[i].symbol, rows[i].shares, fromisoformat(rows[i].buy_date),
               rows[i].cost_basis_per_share)]

buys_of(rows) ==
    [i \in 1..Len(rows) |->
        RecentBuy(fromisoformat(rows[i].date), rows[i].symbol, rows[i].shares)]

\* json.dumps(item.model_dump(), default=str): the two dates become strings
item_dumps(it) ==
    [it EXCEPT !.sale_date = isoformat(@), !.reentry_date_ok_after = isoformat(@)]

\* HarvestItem(**json.loads(j)): the two strings are parsed back into dates
item_loads(j) ==
    [j EXCEPT !.sale_date = fromisoformat(@), !.reentry_date_ok_after = fromisoformat(@)]

\* {"plan_id": id, **plan.model_dump()}
plan_body(id, pl) ==
    [plan_id |-> id, asof |-> pl.asof, items |-> pl.items,
     total_harvestable_loss |-> pl.total_harvestable_loss,
     simulated_cash_delta |-> pl.simulated_cash_delta,
     policy_version |-> pl.policy_version]

\* the HarvestPlan that get_latest_plan and explain build from a plans row
stored_plan(d, prow) ==
    LET its == fetch_plan_items(d, prow.id)
    IN  [asof |-> fromisoformat(prow.asof),
         items |-> [i \in 1..Len(its) |-> item_loads(its[i])],
         total_harvestable_loss |-> prow.total_loss,
         simulated_cash_delta |-> prow.cash_delta,
         policy_version |-> "demo-1"]

Response(route, status, body) == [route |-> route, status |-> status, body |-> body]

MaxPlans == 2

MaxDays == 1

\* the bodies POST /market is called with
MarketBodies ==
    { [sym \in {"SPY"} |-> Whole(480)],
      [sym \in {"AAPL", "XLK"} |-> IF sym = "AAPL" THEN Whole(190) ELSE Zero] }

\* what a route of the server does not touch: the variables of the direct calls
offline == <<inputs, pc, idx, items, total_loss, cash_delta, plan, error, text, calls>>

\* a day passes
Tick ==
    /\ clock < Today + MaxDays
    /\ clock' = clock + 1
    /\ UNCHANGED <<db, resp, built, building>>
    /\ UNCHANGED offline

\* POST /seed/demo
Seed ==
    /\ db' = seed_demo(db, clock)
    /\ resp' = Some(Response("seed", 200, "ok"))
    /\ built' = None
    /\ UNCHANGED <<clock, building>>
    /\ UNCHANGED offline

\* POST /market
SetMarket ==
    /\ \E body \in MarketBodies :
           /\ db' = upsert_prices(db, isoformat(clock), body)
           /\ resp' = Some(Response("market", 200, isoformat(clock)))
    /\ UNCHANGED <<clock, built, building>>
    /\ UNCHANGED offline

\* POST /plan/build
PlanBuild ==
    /\ db.plan_seq < MaxPlans
    /\ \E t \in Thresholds, m \in fetch_market(db, clock), recent \in fetch_recent_buys(db) :
       \E f \in {build_plan(_policy_from_db(db), t[1], t[2], lots_of(fetch_lots(db)),
                            MarketData(fromisoformat(m[1]), m[2]), buys_of(recent))} :
           IF f.pc = "raised"
           THEN /\ resp' = Some(Response("build", 500, f.error))
                /\ UNCHANGED <<db, built>>
           ELSE \E with_plan \in {insert_plan(db, isoformat(f.plan[1].asof),
                                               f.plan[1].total_harvestable_loss,
                                               f.plan[1].simulated_cash_delta)} :
                    LET pl      == f.plan[1]
                        plan_id == with_plan.plan_seq
                        dumped  == [i \in 1..Len(pl.items) |-> item_dumps(pl.items[i])]
                    IN  /\ db' = insert_plan_items(with_plan, plan_id, dumped)
                        /\ resp' = Some(Response("build", 200, plan_body(plan_id, pl)))
                        /\ built' = Some(plan_body(plan_id, pl))
    /\ UNCHANGED <<clock, building>>
    /\ UNCHANGED offline

\* GET /plan/latest
PlanLatest ==
    /\ LET prow == fetch_latest_plan(db)
       IN  resp' = IF prow = None THEN Some(Response("latest", 404, "No plans yet"))
                   ELSE Some(Response("latest", 200,
                                      plan_body(prow[1].id, stored_plan(db, prow[1]))))
    /\ UNCHANGED <<db, clock, built, building>>
    /\ UNCHANGED offline

\* POST /explain/latest
ExplainLatest ==
    /\ LET prow == fetch_latest_plan(db)
       IN  IF prow = None
           THEN resp' = Some(Response("explain", 404, "No plans yet"))
           ELSE IF fetch_plan_items(db, prow[1].id) = <<>>
           THEN resp' = Some(Response("explain", 404, "Plan items not found"))
           ELSE \E answered \in BOOLEAN :
                    resp' = Some(Response("explain", 200,
                        IF answered THEN [via |-> "llm", lines |-> <<[kind |-> "LLM"]>>]
                        ELSE [via |-> "fallback",
                              lines |-> fallback_lines(stored_plan(db, prow[1]))]))
    /\ UNCHANGED <<db, clock, built, building>>
    /\ UNCHANGED offline

\* the server after init_db on a new database file
InitApi ==
    /\ db = EmptyDb
    /\ clock = Today
    /\ resp = None
    /\ built = None
    /\ building = None
    /\ policy = demo_policy
    /\ min_loss_dollars = Whole(200)
    /\ min_loss_pct = Rat(5, 100)
    /\ lots = <<>>
    /\ market = MarketData(Today, <<>>)
    /\ buys = <<>>
    /\ pc = "idle"
    /\ idx = 0
    /\ items = <<>>
    /\ total_loss = Zero
    /\ cash_delta = Zero
    /\ plan = None
    /\ error = ""
    /\ text = None
    /\ calls = <<>>

NextApi == Tick \/ Seed \/ SetMarket \/ PlanBuild \/ PlanLatest \/ ExplainLatest

SpecApi == InitApi /\ [][NextApi]_vars

(***************************************************************************)
(* POST /plan/build beside other requests.  The handler commits twice:     *)
(* insert_plan commits the plan row, insert_plan_items commits the items;  *)
(* a request served by another worker thread can run between the two.      *)
(* building holds the handler's plan_id and plan between the commits.      *)
(***************************************************************************)
\* POST /plan/build up to the commit of insert_plan
BuildBegin ==
    /\ building = None
    /\ db.plan_seq < MaxPlans
    /\ \E t \in Thresholds, m \in fetch_market(db, clock), recent \in fetch_recent_buys(db) :
       \E f \in {build_plan(_policy_from_db(db), t[1], t[2], lots_of(fetch_lots(db)),
                            MarketData(fromisoformat(m[1]), m[2]), buys_of(recent))} :
           IF f.pc = "raised"
           THEN /\ resp' = Some(Response("build", 500, f.error))
                /\ UNCHANGED <<db, building>>
           ELSE \E with_plan \in {insert_plan(db, isoformat(f.plan[1].asof),
                                               f.plan[1].total_harvestable_loss,
                                               f.plan[1].simulated_cash_delta)} :
                    /\ db' = with_plan
                    /\ building' = Some([plan_id |-> with_plan.plan_seq, plan |-> f.plan[1]])
                    /\ UNCHANGED resp
    /\ UNCHANGED <<clock, built>>
    /\ UNCHANGED offline

\* POST /plan/build from insert_plan_items to the response
BuildEnd ==
    /\ building # None
    /\ LET pl      == building[1].plan
           plan_id == building[1].plan_id
           dumped  == [i \in 1..Len(pl.items) |-> item_dumps(pl.items[i])]
       IN  /\ db' = insert_plan_items(db, plan_id, dumped)
           /\ resp' = Some(Response("build", 200, plan_body(plan_id, pl)))
           /\ built' = Some(plan_body(plan_id, pl))
    /\ building' = None
    /\ UNCHANGED clock
    /\ UNCHANGED offline

NextThreads ==
    Tick \/ Seed \/ SetMarket \/ BuildBegin \/ BuildEnd \/ PlanLatest \/ ExplainLatest

SpecThreads == InitApi /\ [][NextThreads]_vars

(***************************************************************************)
(* What the claims speak of.                                               *)
(***************************************************************************)
Returned == pc = "returned"

\* the plan build_plan returned
ThePlan == plan[1]

\* the lot an item was made from
LotOf(it) == lots[it.lot_index + 1]

\* the items of the returned plan made from the lot at position k (from 0)
ItemsOfLot(k) == {i \in 1..Len(ThePlan.items) : ThePlan.items[i].lot_index = k}

\* the first declared cluster, in declaration order, that holds s; {s} when none does
RECURSIVE FirstDeclared(_, _)
FirstDeclared(clusters, s) ==
    IF clusters = <<>> THEN {s}
    ELSE IF \E i \in 1..Len(Head(clusters)) : Head(clusters)[i] = s
         THEN {Head(clusters)[i] : i \in 1..Len(Head(clusters))}
         ELSE FirstDeclared(Tail(clusters), s)

ClusterOf(s) == FirstDeclared(policy.prohibited_equivalents, s)

\* a recent buy of the lot's cluster dated 0 to 30 days before the sale date
BuyInWindow(b, symbol, sale_date) ==
    /\ b.symbol \in ClusterOf(symbol)
    /\ sale_date - b.date \in 0..30

PairwiseDisjoint(pol) ==
    \A i, j \in 1..Len(pol.prohibited_equivalents) :
        i # j => Range(pol.prohibited_equivalents[i])
                    \cap Range(pol.prohibited_equivalents[j]) = {}

\* the sum of a list of numbers
RECURSIVE SumRat(_)
SumRat(xs) == IF xs = <<>> THEN Zero ELSE RatAdd(Head(xs), SumRat(Tail(xs)))

IsFree(it) == ~it.wash_sale_blocked

\* the non-blocked items of a list, in order
NonBlocked(its) == SelectSeq(its, IsFree)

\* [f(it) for it in its] for the loss of an item
LossesOf(its) == [i \in 1..Len(its) |-> its[i].loss_dollars]

\* max(0, cost basis - price) * shares
ClaimedLoss(l, px) ==
    RatMul(RatMax(Zero, RatSub(l.cost_basis_per_share, px)), l.shares)

\* the loss as a fraction of the cost basis, 0 when the cost basis is not positive
ClaimedLossPct(l, px) ==
    IF l.cost_basis_per_share.n > 0
    THEN RatDiv(RatSub(l.cost_basis_per_share, px), l.cost_basis_per_share)
    ELSE Zero

(***************************************************************************)
(* C1.  In a returned plan no item is left non-blocked when some recent    *)
(* buy of its lot's cluster is dated 0 to 30 days (both inclusive) before  *)
(* the sale date.                                                          *)
(***************************************************************************)
C1_NoHarvestInsideWindow ==
    Returned =>
        \A i \in 1..Len(ThePlan.items) :
            LET it == ThePlan.items[i]
            IN  ~it.wash_sale_blocked =>
                    \A b \in 1..Len(buys) :
                        ~BuyInWindow(buys[b], LotOf(it).symbol, it.sale_date)

\* one lot blocked by a buy of the sale date, another by a buy 30 days before
C1_Witness ==
    /\ Returned
    /\ \E i, j \in 1..Len(ThePlan.items) :
           LET a == ThePlan.items[i]
               b == ThePlan.items[j]
           IN  /\ a.wash_sale_blocked /\ b.wash_sale_blocked
               /\ a.block_reason[1].date = Some(a.sale_date)
               /\ b.block_reason[1].date = Some(b.sale_date - 30)

(***************************************************************************)
(* C2.  Under a policy whose clusters are pairwise disjoint, every         *)
(* non-blocked item of a returned plan has a replacement symbol whose      *)
(* cluster shares no symbol with the source symbol's cluster.              *)
(***************************************************************************)
C2_ReplacementOutsideCluster ==
    (Returned /\ PairwiseDisjoint(policy)) =>
        \A i \in 1..Len(ThePlan.items) :
            LET it == ThePlan.items[i]
            IN  ~it.wash_sale_blocked =>
                    /\ it.replacement_symbol # None
                    /\ ClusterOf(it.replacement_symbol[1]) \cap ClusterOf(it.symbol) = {}

\* a non-blocked item whose symbol's own list names a member of its cluster
C2_Witness ==
    /\ Returned
    /\ PairwiseDisjoint(policy)
    /\ \E i \in 1..Len(ThePlan.items) :
           LET it == ThePlan.items[i]
           IN  /\ ~it.wash_sale_blocked
               /\ \E e \in 1..Len(policy.recommended_alternatives) :
                      /\ policy.recommended_alternatives[e].symbol = it.symbol
                      /\ Range(policy.recommended_alternatives[e].alts)
                            \cap ClusterOf(it.symbol) # {}

(***************************************************************************)
(* C3.  Every item of a returned plan, blocked or not, has sale_date equal *)
(* to the market's as-of date and reentry_date_ok_after = sale_date + 31;  *)
(* so a non-blocked item re-enters at least 31 days after the sale.        *)
(***************************************************************************)
C3_SaleAndReentryDates ==
    Returned =>
        \A i \in 1..Len(ThePlan.items) :
            LET it == ThePlan.items[i]
            IN  /\ it.sale_date = market.asof
                /\ it.reentry_date_ok_after = it.sale_date + 31
                /\ ~it.wash_sale_blocked =>
                       it.reentry_date_ok_after - it.sale_date >= 31

\* a plan holding a blocked and a non-blocked item
C3_Witness ==
    /\ Returned
    /\ \E i, j \in 1..Len(ThePlan.items) :
           ThePlan.items[i].wash_sale_blocked /\ ~ThePlan.items[j].wash_sale_blocked

(***************************************************************************)
(* C4.  A lot yields exactly one item when its symbol is priced and both   *)
(* loss_total >= min_loss_dollars and loss_pct >= min_loss_pct hold, and   *)
(* no item otherwise.                                                      *)
(***************************************************************************)
C4_ItemIffPricedAndOverThresholds ==
    Returned =>
        \A k \in 0..(Len(lots) - 1) :
            LET l      == lots[k + 1]
                px     == price(market, l.symbol)
                passes == /\ px # None
                          /\ RatLeq(min_loss_dollars, ClaimedLoss(l, px[1]))
                          /\ RatLeq(min_loss_pct, ClaimedLossPct(l, px[1]))
            IN  Cardinality(ItemsOfLot(k)) = IF passes THEN 1 ELSE 0

\* an item whose loss equals the dollar threshold, one whose loss equals the
\* percentage threshold
C4_Witness ==
    /\ Returned
    /\ min_loss_dollars.n > 0
    /\ \E i, j \in 1..Len(ThePlan.items) :
           LET a == ThePlan.items[i]
               b == ThePlan.items[j]
           IN  /\ ClaimedLoss(LotOf(a), a.sale_price) = min_loss_dollars
               /\ ClaimedLossPct(LotOf(b), b.sale_price) = min_loss_pct

(***************************************************************************)
(* C5.  total_harvestable_loss of a returned plan is the sum of the        *)
(* rounded loss_dollars of its non-blocked items; a blocked item's loss is *)
(* not counted.                                                            *)
(***************************************************************************)
C5_TotalIsSumOfRoundedLosses ==
    Returned =>
        ThePlan.total_harvestable_loss = SumRat(LossesOf(NonBlocked(ThePlan.items)))

\* a blocked item with a loss, beside a non-blocked one whose loss was rounded
C5_Witness ==
    /\ Returned
    /\ \E i, j \in 1..Len(ThePlan.items) :
           LET a == ThePlan.items[i]
               b == ThePlan.items[j]
           IN  /\ a.wash_sale_blocked /\ a.loss_dollars.n > 0
               /\ ~b.wash_sale_blocked /\ b.loss_dollars.n > 0
               /\ b.loss_dollars # ClaimedLoss(LotOf(b), b.sale_price)

\* the alternative has a price in the snapshot and it is above 0.01
PricedAboveFloor(a) ==
    a \in DOMAIN market.prices /\ RatLess(Rat(1, 100), market.prices[a])

\* the positions, in safe_alternatives(symbol), of the alternatives priced above 0.01
UsableAlternatives(symbol) ==
    {a \in 1..Len(safe_alternatives(policy, symbol)) :
        PricedAboveFloor(safe_alternatives(policy, symbol)[a])}

\* no recent buy of the lot's cluster is dated 0 to 30 days before the sale
NotWashBlocked(symbol) ==
    \A b \in 1..Len(buys) : ~BuyInWindow(buys[b], symbol, market.asof)

\* the item's own cash term: shares_to_sell * sale_price less
\* replacement_shares * replacement_price
CashTerm(it) ==
    RatSub(RatMul(it.shares_to_sell, it.sale_price),
           RatMul(it.replacement_shares[1], it.replacement_price[1]))

CashTermsOf(its) == [i \in 1..Len(its) |-> CashTerm(its[i])]

(***************************************************************************)
(* C6.  simulated_cash_delta of a returned plan is the sum, over the       *)
(* non-blocked items, of sale proceeds less replacement cost computed from *)
(* the items' rounded values (shares_to_sell * sale_price and the          *)
(* replacement_shares rounded to 6 decimals * replacement_price).  The     *)
(* plan's field holds 2 decimals, so the sum is compared to the cent.      *)
(***************************************************************************)
C6_CashDeltaFromRoundedItems ==
    Returned =>
        ThePlan.simulated_cash_delta
            = round(SumRat(CashTermsOf(NonBlocked(ThePlan.items))), 2)

(***************************************************************************)
(* C7 as amended.  A lot that passes the thresholds, is not wash-sale      *)
(* blocked and has an alternative priced above 0.01 gets a non-blocked     *)
(* item whose replacement is the first such symbol in the order of         *)
(* safe_alternatives (a price of 0.01, of zero or a missing price is       *)
(* skipped), at that price, and whose replacement_shares is                *)
(* (lot shares * sale price) / replacement price rounded to 6 decimals.    *)
(***************************************************************************)
C7_ReplacementIs(it, shares_of(_, _)) ==
    LET l      == LotOf(it)
        alts   == safe_alternatives(policy, l.symbol)
        usable == UsableAlternatives(l.symbol)
        first  == CHOOSE a \in usable : \A c \in usable : a <= c
        rpx    == market.prices[alts[first]]
    IN  (NotWashBlocked(l.symbol) /\ usable # {}) =>
            /\ ~it.wash_sale_blocked
            /\ it.replacement_symbol = Some(alts[first])
            /\ it.replacement_price = Some(rpx)
            /\ it.replacement_shares = Some(shares_of(RatMul(l.shares, it.sale_price), rpx))

C7_RoundedQuotient(proceeds, rpx) == round(RatDiv(proceeds, rpx), 6)

C7_ExactQuotient(proceeds, rpx) == RatDiv(proceeds, rpx)

C7_FirstUsableAlternativeRounded ==
    Returned =>
        \A i \in 1..Len(ThePlan.items) :
            C7_ReplacementIs(ThePlan.items[i], C7_RoundedQuotient)

\* C7 as stated: replacement_shares is the quotient itself
C7_FirstUsableAlternativeExact ==
    Returned =>
        \A i \in 1..Len(ThePlan.items) :
            C7_ReplacementIs(ThePlan.items[i], C7_ExactQuotient)

\* a replacement picked after a first alternative priced at exactly 0.01 was
\* skipped, its share count not a 6-decimal number
C7_Witness ==
    /\ Returned
    /\ \E i \in 1..Len(ThePlan.items) :
           LET it   == ThePlan.items[i]
               alts == safe_alternatives(policy, it.symbol)
           IN  /\ ~it.wash_sale_blocked
               /\ price(market, alts[1]) = Some(Rat(1, 100))
               /\ it.replacement_symbol = Some(alts[2])
               /\ it.replacement_shares[1]
                     # RatDiv(RatMul(LotOf(it).shares, it.sale_price),
                              it.replacement_price[1])

(***************************************************************************)
(* C8.  A lot that passes the thresholds and is not wash-sale blocked but  *)
(* has no safe alternative priced above 0.01 still gets its item, blocked  *)
(* with the reason "No safe replacement with known price" and without      *)
(* replacement; its loss is not in the total, and nothing is raised.       *)
(***************************************************************************)
C8_NoReplacementLot(k) ==
    LET l  == lots[k + 1]
        px == price(market, l.symbol)
    IN  /\ px # None
        /\ RatLeq(min_loss_dollars, ClaimedLoss(l, px[1]))
        /\ RatLeq(min_loss_pct, ClaimedLossPct(l, px[1]))
        /\ NotWashBlocked(l.symbol)
        /\ UsableAlternatives(l.symbol) = {}

C8_BlockedForLackOfReplacement ==
    \A k \in 0..(Len(lots) - 1) :
        C8_NoReplacementLot(k) =>
            /\ pc # "raised"
            /\ Returned =>
                   /\ Cardinality(ItemsOfLot(k)) = 1
                   /\ \A i \in ItemsOfLot(k) :
                          LET it       == ThePlan.items[i]
                              Other(x) == x.lot_index # k
                              others   == SelectSeq(ThePlan.items, Other)
                          IN  /\ it.wash_sale_blocked
                              /\ it.block_reason # None
                              /\ it.block_reason[1].text
                                    = "No safe replacement with known price"
                              /\ it.replacement_symbol = None
                              /\ it.replacement_shares = None
                              /\ it.replacement_price = None
                              /\ ThePlan.total_harvestable_loss
                                    = SumRat(LossesOf(NonBlocked(others)))

\* a lot with a loss and with alternatives none of which is priced above 0.01,
\* beside a harvested lot
C8_Witness ==
    /\ Returned
    /\ ThePlan.total_harvestable_loss.n > 0
    /\ \E k \in 0..(Len(lots) - 1) :
           /\ C8_NoReplacementLot(k)
           /\ safe_alternatives(policy, lots[k + 1].symbol) # <<>>
           /\ \E i \in ItemsOfLot(k) : ThePlan.items[i].loss_dollars.n > 0

(***************************************************************************)
(* C9.  The validation after assembly never fails, whatever the policy     *)
(* (overlapping clusters, lists naming members of the source cluster),     *)
(* lots, market and recent buys: neither ValueError is raised.             *)
(***************************************************************************)
C9_ValidatorNeverFails ==
    /\ pc # "raised"
    /\ error = ""
    /\ pc = "validate" => validation_error(ThePlan, policy) = ""

\* a plan returned under overlapping clusters, with a harvested lot whose list
\* names a member of its own cluster
C9_Witness ==
    /\ Returned
    /\ ~PairwiseDisjoint(policy)
    /\ \E i \in 1..Len(ThePlan.items) :
           LET it == ThePlan.items[i]
           IN  /\ ~it.wash_sale_blocked
               /\ \E e \in 1..Len(policy.recommended_alternatives) :
                      /\ policy.recommended_alternatives[e].symbol = it.symbol
                      /\ Range(policy.recommended_alternatives[e].alts)
                            \cap ClusterOf(it.symbol) # {}

(***************************************************************************)
(* C10.  cluster_for(symbol) is the set of symbols of the first declared   *)
(* cluster, in declaration order, that contains symbol, and {symbol} when  *)
(* no declared cluster contains it; symbol is a member of the result.      *)
(***************************************************************************)
C10_ClusterForIsFirstDeclared ==
    \A s \in Symbols \cup {"QQQ"} :
        /\ cluster_for(policy, s) = FirstDeclared(policy.prohibited_equivalents, s)
        /\ s \in cluster_for(policy, s)

\* a lot of a symbol declared in two clusters, blocked by a buy of a symbol that
\* only the first of them holds; and a symbol no cluster holds
C10_Witness ==
    /\ Returned
    /\ \E s \in Symbols : cluster_for(policy, s) = {s}
    /\ \E i \in 1..Len(ThePlan.items) :
           LET it   == ThePlan.items[i]
               pe   == policy.prohibited_equivalents
               with == {c \in 1..Len(pe) : it.symbol \in Range(pe[c])}
           IN  /\ Cardinality(with) >= 2
               /\ it.wash_sale_blocked
               /\ it.block_reason[1].symbol # None
               /\ \E c \in with : it.block_reason[1].symbol[1] \notin Range(pe[c])

(***************************************************************************)
(* C11.  safe_alternatives(symbol) is the list keyed on symbol when that   *)
(* list is non-empty, otherwise the list of the first entry of the table   *)
(* (declaration order) whose key shares symbol's cluster, that is, whose   *)
(* cluster holds symbol; in both cases without the members of symbol's     *)
(* cluster and with the others in their order.  The result holds neither   *)
(* symbol nor a symbol of its cluster.                                     *)
(***************************************************************************)
\* the list of the first entry of the table keyed on s, <<>> when none
RECURSIVE OwnList(_, _)
OwnList(table, s) ==
    IF table = <<>> THEN <<>>
    ELSE IF Head(table).symbol = s THEN Head(table).alts
         ELSE OwnList(Tail(table), s)

\* the list of the first entry of the table whose key has s in its cluster
RECURSIVE SharedList(_, _, _)
SharedList(table, clusters, s) ==
    IF table = <<>> THEN <<>>
    ELSE IF s \in FirstDeclared(clusters, Head(table).symbol) THEN Head(table).alts
         ELSE SharedList(Tail(table), clusters, s)

\* out is xs without the members of S, the others in their order
IsFilterOf(out, xs, S) ==
    LET kept    == {i \in 1..Len(xs) : xs[i] \notin S}
        rank(i) == Cardinality({j \in kept : j <= i})
    IN  /\ Len(out) = Cardinality(kept)
        /\ \A i \in kept : out[rank(i)] = xs[i]

C11_SourceList(s) ==
    LET own == OwnList(policy.recommended_alternatives, s)
    IN  IF own # <<>> THEN own
        ELSE SharedList(policy.recommended_alternatives,
                        policy.prohibited_equivalents, s)

C11_SafeAlternatives ==
    \A s \in Symbols :
        /\ IsFilterOf(safe_alternatives(policy, s), C11_SourceList(s), ClusterOf(s))
        /\ Range(safe_alternatives(policy, s)) \cap (ClusterOf(s) \cup {s}) = {}

\* a harvested lot whose symbol has no list of its own: the list came from
\* another key, and a member of the cluster was removed from it
C11_Witness ==
    /\ Returned
    /\ \E i \in 1..Len(ThePlan.items) :
           LET it == ThePlan.items[i]
           IN  /\ ~it.wash_sale_blocked
               /\ \A e \in 1..Len(policy.recommended_alternatives) :
                      policy.recommended_alternatives[e].symbol # it.symbol
               /\ Range(C11_SourceList(it.symbol)) \cap ClusterOf(it.symbol) # {}
               /\ it.replacement_symbol[1] \in Range(C11_SourceList(it.symbol))

(***************************************************************************)
(* C17.  With no lots build_plan returns, without a validator failure, a   *)
(* plan with no items and both totals 0.  With no recent buys an item is   *)
(* blocked only for lack of a usable replacement.                          *)
(***************************************************************************)
C17_EmptyInputs ==
    /\ lots = <<>> => pc # "raised"
    /\ (Returned /\ lots = <<>>) =>
           /\ ThePlan.items = <<>>
           /\ ThePlan.total_harvestable_loss = Zero
           /\ ThePlan.simulated_cash_delta = Zero
    /\ buys = <<>> =>
           \A i \in 1..Len(items) :
               items[i].wash_sale_blocked =>
                   /\ items[i].block_reason = Some(NoReplacementReason)
                   /\ UsableAlternatives(items[i].symbol) = {}

\* a plan was returned for an empty list of lots while recent buys were given
C17_Witness == Returned /\ lots = <<>> /\ buys # <<>>

(***************************************************************************)
(* C18.  The block reason of a wash-sale-blocked item names the date and   *)
(* the symbol of the first buy, in the order of the recent-buys list, that *)
(* lies in the lot's cluster 0 to 30 days before the sale date.            *)
(***************************************************************************)
BlockingBuys(it) ==
    {b \in 1..Len(buys) : BuyInWindow(buys[b], it.symbol, it.sale_date)}

C18_ReasonNamesFirstBlockingBuy ==
    \A i \in 1..Len(items) :
        LET it == items[i]
        IN  BlockingBuys(it) # {} =>
                LET first == CHOOSE b \in BlockingBuys(it) :
                                 \A c \in BlockingBuys(it) : b <= c
                IN  /\ it.wash_sale_blocked
                    /\ it.block_reason # None
                    /\ it.block_reason[1].date = Some(buys[first].date)
                    /\ it.block_reason[1].symbol = Some(buys[first].symbol)

\* an item blocked while two buys of different date and symbol both match
C18_Witness ==
    \E i \in 1..Len(items) :
        \E b, c \in BlockingBuys(items[i]) :
            /\ b < c
            /\ buys[b].date # buys[c].date
            /\ buys[b].symbol # buys[c].symbol
            /\ items[i].wash_sale_blocked

(***************************************************************************)
(* C19.  Every item has loss_dollars >= 0, and loss_dollars is             *)
(* max(0, cost basis - price) * shares of its lot rounded to 2 decimals.   *)
(***************************************************************************)
C19_LossDollars ==
    \A i \in 1..Len(items) :
        /\ items[i].loss_dollars.n >= 0
        /\ items[i].loss_dollars =
               round(ClaimedLoss(LotOf(items[i]), items[i].sale_price), 2)

\* an item of more than one share whose loss is changed by the rounding
C19_Witness ==
    \E i \in 1..Len(items) :
        /\ items[i].loss_dollars.n > 0
        /\ items[i].loss_dollars # ClaimedLoss(LotOf(items[i]), items[i].sale_price)
        /\ LotOf(items[i]).shares # Whole(1)

(***************************************************************************)
(* C12.  Demo policy, default thresholds, an SPY lot of 50 shares at cost  *)
(* 520 priced 500 on day D, a recent buy of VOO on D - 15: the plan has an *)
(* item for the SPY lot, wash-sale-blocked, whose reason names VOO and the *)
(* buy's date, with loss_dollars 1000.00 left out of the plan's total.     *)
(***************************************************************************)
DefaultThresholds == min_loss_dollars = Whole(200) /\ min_loss_pct = Rat(5, 100)

\* the lot at position k (from 0) is the seeded lot of the symbol, priced px
SeededLotAt(k, symbol, shares, cost, px) ==
    /\ lots[k + 1].symbol = symbol
    /\ lots[k + 1].shares = Whole(shares)
    /\ lots[k + 1].cost_basis_per_share = Whole(cost)
    /\ price(market, symbol) = Some(Whole(px))

C12_SpyLotBlockedByVoo ==
    (Returned /\ policy = demo_policy /\ DefaultThresholds) =>
        \A k \in 0..(Len(lots) - 1) : \A b \in 1..Len(buys) :
            ( /\ SeededLotAt(k, "SPY", 50, 520, 500)
              /\ buys[b].symbol = "VOO"
              /\ buys[b].date = market.asof - 15 ) =>
                /\ \E i \in ItemsOfLot(k) :
                       LET it == ThePlan.items[i]
                       IN  /\ it.wash_sale_blocked
                           /\ it.block_reason # None
                           /\ it.block_reason[1].symbol = Some("VOO")
                           /\ it.block_reason[1].date = Some(buys[b].date)
                           /\ it.loss_dollars = Whole(1000)
                /\ ThePlan.total_harvestable_loss =
                       round(SumRat(LossesOf(NonBlocked(ThePlan.items))), 2)

(***************************************************************************)
(* C13.  Demo policy, an AAPL lot of 40 shares at cost 195 priced 178, no  *)
(* recent buy of AAPL's cluster in the window, XLK and VGT both priced:    *)
(* the item is not blocked, its replacement is XLK, its re-entry date is   *)
(* the sale date + 31 days, and replacement_shares is proceeds / XLK price *)
(* rounded to 6 decimals (C13_AaplReplacedByXlkExact: the quotient itself).*)
(***************************************************************************)
C13_Scenario(k) ==
    /\ Returned
    /\ policy = demo_policy
    /\ SeededLotAt(k, "AAPL", 40, 195, 178)
    /\ NotWashBlocked("AAPL")
    /\ price(market, "XLK") # None
    /\ price(market, "VGT") # None

C13_AaplItem(k, Shares(_)) ==
    /\ Cardinality(ItemsOfLot(k)) = 1
    /\ \A i \in ItemsOfLot(k) :
           LET it == ThePlan.items[i]
           IN  /\ ~it.wash_sale_blocked
               /\ it.replacement_symbol = Some("XLK")
               /\ it.replacement_shares =
                      Some(Shares(RatDiv(RatMul(Whole(40), Whole(178)),
                                         price(market, "XLK")[1])))
               /\ it.reentry_date_ok_after = it.sale_date + 31
               /\ it.sale_date = market.asof

C13_AaplReplacedByXlkRounded ==
    \A k \in 0..(Len(lots) - 1) :
        C13_Scenario(k) => C13_AaplItem(k, LAMBDA q : round(q, 6))

C13_AaplReplacedByXlkExact ==
    \A k \in 0..(Len(lots) - 1) :
        C13_Scenario(k) => C13_AaplItem(k, LAMBDA q : q)

\* the AAPL lot was harvested under the default thresholds next to another lot
C13_Witness ==
    /\ DefaultThresholds
    /\ Len(lots) = 2
    /\ \E k \in 0..(Len(lots) - 1) : C13_Scenario(k) /\ ItemsOfLot(k) # {}

(***************************************************************************)
(* C16.  The fallback text of explain_plan is never empty, and between its *)
(* opening and closing lines it has one line per item of the plan, in plan *)
(* order: a BLOCKED line for a blocked item, a SELL line (with the         *)
(* replacement to BUY) for any other.                                      *)
(***************************************************************************)
ItemLines(ls) == SelectSeq(ls, LAMBDA l : l.kind \in {"BLOCKED", "SELL"})

C16_FallbackListsEveryItem ==
    /\ ~(pc = "raised" /\ error = "TypeError")
    /\ (pc = "explained" /\ text[1].via = "fallback") =>
           LET ls == text[1].lines
               il == ItemLines(ls)
           IN  /\ ls # <<>>
               /\ Len(il) = Len(ThePlan.items)
               /\ \A i \in 1..Len(il) :
                      /\ il[i].symbol = ThePlan.items[i].symbol
                      /\ il[i].lot_index = ThePlan.items[i].lot_index
                      /\ il[i].kind = "BLOCKED" <=> ThePlan.items[i].wash_sale_blocked
                      /\ il[i].kind = "SELL" =>
                             il[i].buy = ThePlan.items[i].replacement_symbol

\* the fallback text of a plan with a blocked item followed by one to sell
C16_Witness ==
    /\ pc = "explained"
    /\ text[1].via = "fallback"
    /\ Len(ThePlan.items) = 2
    /\ ThePlan.items[1].wash_sale_blocked
    /\ ~ThePlan.items[2].wash_sale_blocked

(***************************************************************************)
(* C20.  The items of a plan follow the input order of their lots:         *)
(* lot_index is strictly increasing along the items and is a position of   *)
(* the lots list, so no lot has two items; the item's symbol is that of    *)
(* the lot at lot_index, and shares_to_sell is that lot's shares rounded   *)
(* to 6 decimals (C20_ItemsFollowLotsExact: the lot's shares themselves).  *)
(***************************************************************************)
C20_ItemsFollowLots(Shares(_)) ==
    Returned =>
        /\ \A i, j \in 1..Len(ThePlan.items) :
               i < j => ThePlan.items[i].lot_index < ThePlan.items[j].lot_index
        /\ \A i \in 1..Len(ThePlan.items) :
               LET it == ThePlan.items[i]
               IN  /\ it.lot_index \in 0..(Len(lots) - 1)
                   /\ it.symbol = LotOf(it).symbol
                   /\ it.shares_to_sell = Shares(LotOf(it).shares)
                   /\ it.sale_price = market.prices[LotOf(it).symbol]

C20_ItemsFollowLotsRounded == C20_ItemsFollowLots(LAMBDA q : round(q, 6))

C20_ItemsFollowLotsExact == C20_ItemsFollowLots(LAMBDA q : q)

\* two items of different lots, the second lot with shares beyond 6 decimals
C20_Witness ==
    /\ Returned
    /\ Len(ThePlan.items) = 2
    /\ ThePlan.items[1].symbol # ThePlan.items[2].symbol
    /\ ThePlan.items[2].shares_to_sell # LotOf(ThePlan.items[2]).shares

(***************************************************************************)
(* C15.  Two calls of build_plan whose steps interleave end, each, as the  *)
(* call ends when it runs alone on the same arguments: the same plan, or   *)
(* the same error.  No step changes the lots, the market snapshot or the   *)
(* recent buys of a call, nor the policy and thresholds of the navigator.  *)
(***************************************************************************)
Ended(c) == calls[c].pc \in {"returned", "raised"}

Alone(c) ==
    build_plan(policy, min_loss_dollars, min_loss_pct,
               calls[c].lots, calls[c].market, calls[c].buys)

ArgumentsKept ==
    /\ \A c \in CallIds : /\ calls'[c].lots = calls[c].lots
                          /\ calls'[c].market = calls[c].market
                          /\ calls'[c].buys = calls[c].buys
    /\ policy' = policy
    /\ min_loss_dollars' = min_loss_dollars
    /\ min_loss_pct' = min_loss_pct

C15_InterleavedCallsAsAlone ==
    /\ [](\A c \in CallIds :
              Ended(c) => /\ calls[c].pc = Alone(c).pc
                          /\ calls[c].plan = Alone(c).plan
                          /\ calls[c].error = Alone(c).error)
    /\ [][ArgumentsKept]_vars

\* both calls, made on different lots, have returned plans with items, and
\* the two plans differ
C15_Witness ==
    /\ \A c \in CallIds : calls[c].pc = "returned" /\ calls[c].plan[1].items # <<>>
    /\ calls["first"].plan # calls["second"].plan
    /\ calls["first"].lots # calls["second"].lots

(***************************************************************************)
(* C14.  GET /plan/latest answers with the plan of the last POST           *)
(* /plan/build: the same plan id and as-of date, the same items with equal *)
(* fields in the same order, the same two totals.  This holds after any    *)
(* number of builds; before the first build since the tables were cleared  *)
(* the answer is 404.                                                      *)
(***************************************************************************)
C14_LatestIsLastBuilt ==
    (resp # None /\ resp[1].route = "latest") =>
        IF built = None
        THEN resp[1].status = 404
        ELSE /\ resp[1].status = 200
             /\ resp[1].body = built[1]

\* /plan/latest answered after a second build whose plan, with a blocked item
\* and an item to sell, differs from the first one's
C14_Witness ==
    /\ resp # None
    /\ resp[1].route = "latest"
    /\ resp[1].status = 200
    /\ Len(db.plans) = 2
    /\ stored_plan(db, db.plans[1]) # stored_plan(db, db.plans[2])
    /\ \E i, j \in 1..Len(resp[1].body.items) :
           /\ resp[1].body.items[i].wash_sale_blocked
           /\ ~resp[1].body.items[j].wash_sale_blocked

(***************************************************************************)
(* C23.  In a returned plan an item is non-blocked exactly when its        *)
(* replacement_symbol, replacement_shares and replacement_price are all    *)
(* present, and blocked exactly when all three are absent; block_reason is *)
(* present exactly when the item is blocked.                               *)
(***************************************************************************)
C23_ReplacementIffNotBlocked ==
    Returned =>
        \A i \in 1..Len(ThePlan.items) :
            LET it      == ThePlan.items[i]
                present == {f \in {"symbol", "shares", "price"} :
                               CASE f = "symbol" -> it.replacement_symbol # None
                                 [] f = "shares" -> it.replacement_shares # None
                                 [] f = "price"  -> it.replacement_price # None}
            IN  /\ ~it.wash_sale_blocked <=> Cardinality(present) = 3
                /\ it.wash_sale_blocked <=> present = {}
                /\ it.block_reason # None <=> it.wash_sale_blocked

\* a plan with a blocked item and a non-blocked one whose lot sells for nothing,
\* so that its replacement_shares is 0
C23_Witness ==
    /\ Returned
    /\ \E i, j \in 1..Len(ThePlan.items) :
           /\ ThePlan.items[i].wash_sale_blocked
           /\ ~ThePlan.items[j].wash_sale_blocked
           /\ ThePlan.items[j].replacement_shares = Some(Zero)

(***************************************************************************)
(* C24.  An emitted item is blocked only when a recent buy of the lot's    *)
(* cluster is dated 0 to 30 days before the sale date, or when no safe     *)
(* alternative is priced above 0.01.  Buys of another cluster, buys dated  *)
(* after the sale date and buys dated 31 or more days before it never      *)
(* block a lot that has a usable replacement.                              *)
(***************************************************************************)
C24_OnlyTwoBlockReasons ==
    \A i \in 1..Len(items) :
        LET it == items[i]
        IN  /\ it.wash_sale_blocked =>
                   \/ BlockingBuys(it) # {}
                   \/ UsableAlternatives(it.symbol) = {}
            /\ (BlockingBuys(it) = {} /\ UsableAlternatives(it.symbol) # {}) =>
                   ~it.wash_sale_blocked
            /\ it.wash_sale_blocked =>
                   \/ \E b \in BlockingBuys(it) : it.block_reason = Some(WashReason(buys[b]))
                   \/ /\ it.block_reason = Some(NoReplacementReason)
                      /\ UsableAlternatives(it.symbol) = {}

\* two non-blocked items: one whose cluster was bought after the sale date, one
\* whose cluster was bought 31 days before it
C24_Witness ==
    \E i, j \in 1..Len(items) : \E b, c \in 1..Len(buys) :
        /\ ~items[i].wash_sale_blocked
        /\ ~items[j].wash_sale_blocked
        /\ buys[b].symbol \in ClusterOf(items[i].symbol)
        /\ buys[b].date > items[i].sale_date
        /\ buys[c].symbol \in ClusterOf(items[j].symbol)
        /\ items[j].sale_date - buys[c].date = 31

(***************************************************************************)
(* C21.  After any sequence of /seed/demo and /market requests every row   *)
(* of the price table carries the same as-of date, so that fetch_market    *)
(* has one possible answer.                                                *)
(***************************************************************************)
AsOfDates == {db.market_prices[sym].asof : sym \in DOMAIN db.market_prices}

C21_OneAsOfDate ==
    /\ Cardinality(AsOfDates) <= 1
    /\ Cardinality(fetch_market(db, clock)) = 1

(***************************************************************************)
(* C22.  The policy loaded by _policy_from_db has, for every symbol, the   *)
(* list of alternatives that was stored, in the stored order (the seeded   *)
(* lists are those of demo_policy), and a non-blocked item of a plan built *)
(* by /plan/build is replaced by the first alternative of the stored list  *)
(* that is outside the cluster and priced above 0.01.                      *)
(***************************************************************************)
\* the alternatives of symbol in the stored order, without its cluster,
\* that the price table prices above 0.01
StoredUsable(symbol) ==
    SelectSeq(safe_alternatives(demo_policy, symbol),
              LAMBDA a : /\ a \in DOMAIN db.market_prices
                         /\ RatLess(Rat(1, 100), db.market_prices[a].price))

C22_StoredRanksKept ==
    /\ db.policy_alternatives # {} =>
           \A e \in 1..Len(demo_policy.recommended_alternatives) :
               alts_get(_policy_from_db(db), demo_policy.recommended_alternatives[e].symbol)
                   = demo_policy.recommended_alternatives[e].alts
    /\ (resp # None /\ resp[1].route = "build" /\ resp[1].status = 200) =>
           \A i \in 1..Len(resp[1].body.items) :
               LET it == resp[1].body.items[i]
               IN  ~it.wash_sale_blocked =>
                       it.replacement_symbol = Some(Head(StoredUsable(it.symbol)))

(***************************************************************************)
(* C25.  A reader beside a running /plan/build never gets a plan with an   *)
(* incomplete item list: the plan /plan/latest answers with is the last    *)
(* plan a build has finished or the plan being built, with all its items,  *)
(* and /explain/latest reports missing items only for a plan that has      *)
(* none.                                                                   *)
(***************************************************************************)
WholePlans ==
    {built[i] : i \in 1..Len(built)}
        \cup {plan_body(building[i].plan_id, building[i].plan) : i \in 1..Len(building)}

C25_ReaderSeesWholePlan ==
    resp # None =>
        /\ (resp[1].route = "latest" /\ resp[1].status = 200) =>
               resp[1].body \in WholePlans
        /\ (resp[1].route = "explain" /\ resp[1].status = 404
                /\ resp[1].body = "Plan items not found") =>
               \E w \in WholePlans : w.items = <<>>

====
